---- MODULE Spec2Model ----
(***************************************************************************)
(* A model of the 2D Ising Metropolis simulation: the lattice object       *)
(* (ising_model.py), the Metropolis kernel (helper.py), the simulation     *)
(* driver and the per-temperature process pool (simulate.py).              *)
(*                                                                         *)
(* Numbers.  Python floats are modelled by exact rationals <<num, den>>    *)
(* with den > 0, in lowest terms.  A uniform draw r of np.random.rand() is *)
(* a grid point q/RGrid, q in 0..RGrid-1, and exp(-x) is its value in      *)
(* millionths, so r <= exp(-x) is decided exactly on the grid.             *)
(***************************************************************************)
EXTENDS Integers, Sequences, FiniteSets, TLC

VARIABLES
    ising,    \* the IsingModel object of the current run: [L, T, J, state], or NoObj
    trial,    \* the latest use of the random generator: the randint(2, size=(L, L))
              \* array the object was built from, or what the latest Metropolis
              \* trial drew, read and decided; NoTrial before the first
    sim,      \* the locals of simulate(): parameters, loop position, running sums
    pool      \* main(): the size being run, its workers' tasks, the table, what was saved

vars == <<ising, trial, sim, pool>>

-----------------------------------------------------------------------------
(* Bounds of the model *)

\* largest lattice side a Metropolis trial is explored on
MaxL == 2
\* largest lattice side the observables are computed on
MaxObsL == 3
\* largest lattice side a whole simulate() run is explored on
MaxSimL == 1
\* largest thermalize_sweeps, msmt_sweeps and msmt_rate of a run
MaxThermalize == 1
MaxMsmt == 3
MaxRate == 2
\* largest lattice side and longest temperature grid of a run of main()
MaxPoolL == 2
MaxTemps == 2
\* number of grid points of the uniform draw r = q/RGrid in [0, 1)
RGrid == 4

-----------------------------------------------------------------------------
(* Rationals *)

RECURSIVE GCD(_, _)
GCD(a, b) == IF b = 0 THEN a ELSE GCD(b, a % b)

Abs(x) == IF x < 0 THEN -x ELSE x

\* n/d in lowest terms, d > 0
Frac(n, d) ==
    LET g == GCD(Abs(n), Abs(d))
        sg == IF d < 0 THEN -1 ELSE 1
    IN  <<sg * (n \div g), sg * (d \div g)>>

RInt(n) == <<n, 1>>
RAdd(x, y) == Frac(x[1] * y[2] + y[1] * x[2], x[2] * y[2])
RSub(x, y) == Frac(x[1] * y[2] - y[1] * x[2], x[2] * y[2])
RMul(x, y) == Frac(x[1] * y[1], x[2] * y[2])
RDiv(x, y) == Frac(x[1] * y[2], x[2] * y[1])
RLt(x, y) == x[1] * y[2] < y[1] * x[2]
RLe(x, y) == x[1] * y[2] <= y[1] * x[2]

-----------------------------------------------------------------------------
(* The lattice: ising_model.py *)

NoObj == [L |-> 0]
NoTrial == [op |-> "none"]

\* the temperatures T explored, as rationals: 1/2 and 8
Temps == {<<1, 2>>, <<8, 1>>}
\* the coupling constants J explored
Js == {1, 2}

Cells(L) == (0 .. L - 1) \X (0 .. L - 1)
Spins == {-1, 1}

\* 2*np.random.randint(2, size=(L, L)) - 1
_get_initial_state_all_up(L, T, J, bits) ==
    [c \in Cells(L) |-> IF RLt(T, RInt(J)) THEN 1 ELSE 2 * bits[c] - 1]

_get_initial_state_zero_one(L, T, J, bits) == [c \in Cells(L) |-> 2 * bits[c]]

_get_initial_state(L, T, J, bits) == [c \in Cells(L) |-> 2 * bits[c] - 1]

\* IsingModel.__init__
IsingModel(L, T, J, bits) ==
    [L |-> L, T |-> T, J |-> J, state |-> _get_initial_state(L, T, J, bits)]

total_spins(obj) == obj.L * obj.L

RECURSIVE SumOver(_, _)
\* the sum of f over the finite set S
SumOver(f, S) ==
    IF S = {} THEN 0
    ELSE LET c == CHOOSE x \in S : TRUE IN f[c] + SumOver(f, S \ {c})

\* neighbours on a lattice with open edges: an index past an edge stays on it
Neighbours_open_edges(L, i, j) ==
    << <<IF i + 1 < L THEN i + 1 ELSE i, j>>, <<i, IF j + 1 < L THEN j + 1 ELSE j>>,
       <<IF i > 0 THEN i - 1 ELSE i, j>>, <<i, IF j > 0 THEN j - 1 ELSE j>> >>

\* the four periodic neighbours of (i, j), in the order the code adds them
Neighbours(L, i, j) ==
    << <<(i + 1) % L, j>>, <<i, (j + 1) % L>>, <<(i - 1) % L, j>>, <<i, (j - 1) % L>> >>

nn_sum(state, L, i, j) ==
    LET nb == Neighbours(L, i, j)
    IN  state[nb[1]] + state[nb[2]] + state[nb[3]] + state[nb[4]]

\* the loop of energy(): the sum over the sites of s * nn_sum
energy_loop(state, L) ==
    SumOver([c \in Cells(L) |-> state[c] * nn_sum(state, L, c[1], c[2])], Cells(L))

\* -J*(energy/4)
energy(state, L, J) == RMul(RInt(-J), Frac(energy_loop(state, L), 4))

\* IsingModel.energy
ising_energy(obj) == energy(obj.state, obj.L, obj.J)

\* IsingModel.magnetization: |sum of the spins| / N
magnetization(obj) == Frac(Abs(SumOver(obj.state, Cells(obj.L))), total_spins(obj))

\* the configuration with every spin reversed
GlobalFlip(obj) == [obj EXCEPT !.state = [c \in Cells(obj.L) |-> -obj.state[c]]]

-----------------------------------------------------------------------------
(* The Metropolis kernel: helper.py *)

\* exp(-h/2) in millionths, rounded down, for the integer h >= 0
\* (exp(-14) is below one millionth)
ExpNegMicro(h) ==
    CASE h = 0 -> 1000000
      [] h = 1 -> 606530
      [] h = 2 -> 367879
      [] h = 3 -> 223130
      [] h = 4 -> 135335
      [] h = 5 -> 82084
      [] h = 6 -> 49787
      [] h = 7 -> 30197
      [] h = 8 -> 18315
      [] h = 9 -> 11108
      [] h = 10 -> 6737
      [] h = 11 -> 4086
      [] h = 12 -> 2478
      [] h = 13 -> 1503
      [] h = 14 -> 911
      [] h = 15 -> 553
      [] h = 16 -> 335
      [] h = 17 -> 203
      [] h = 18 -> 123
      [] h = 19 -> 74
      [] h = 20 -> 45
      [] h = 21 -> 27
      [] h = 22 -> 16
      [] h = 23 -> 10
      [] h = 24 -> 6
      [] h = 25 -> 3
      [] h = 26 -> 2
      [] h = 27 -> 1
      [] OTHER -> 0

\* 2*J*s*nn_sum
flip_cost(J, s, nn) == 2 * J * s * nn

\* np.random.rand() <= np.exp(-cost*(1/T)), for the draw r = q/RGrid and cost >= 0;
\* h = 2*cost/T is an integer for every cost and T explored
rand_le_exp(q, cost, T) ==
    LET h == (2 * cost * T[2]) \div T[1]
    IN  q * 1000000 <= RGrid * ExpNegMicro(h)

accepts_flipped_test(q, cost, T) == cost > 0 \/ rand_le_exp(q, cost, T)

\* the branch of one trial: cost < 0, or the draw passes
accepts(q, cost, T) == cost < 0 \/ rand_le_exp(q, cost, T)

flipped_to_zero(state, a, b) == [state EXCEPT ![<<a, b>>] = 0]

\* state[a, b] = -s
flipped(state, a, b) == [state EXCEPT ![<<a, b>>] = -state[<<a, b>>]]

\* one pass of the loop body of mc_step_metropolis on the site (a, b) with the
\* draw q/RGrid; the draw is made only when cost >= 0
trial_state(state, L, T, J, a, b, q) ==
    LET cost == flip_cost(J, state[<<a, b>>], nn_sum(state, L, a, b))
    IN  IF accepts(q, cost, T) THEN flipped(state, a, b) ELSE state

\* what the trial read and decided
trial_record(state, L, T, J, a, b, q) ==
    LET s == state[<<a, b>>]
        nn == nn_sum(state, L, a, b)
        cost == flip_cost(J, s, nn)
    IN  [op |-> "trial", a |-> a, b |-> b, s |-> s, nn_sum |-> nn, cost |-> cost,
         r |-> IF cost < 0 THEN -1 ELSE q, before |-> state]

\* 1/T raises ZeroDivisionError (numba's default error model) when the elif
\* branch of a trial is evaluated at T = 0, that is when cost >= 0
trial_raises(state, L, T, J, a, b) ==
    T[1] = 0 /\ flip_cost(J, state[<<a, b>>], nn_sum(state, L, a, b)) >= 0

RECURSIVE TrialsImage(_, _, _, _, _)
\* the lattices that n passes of the loop can leave, from any lattice of S,
\* when no pass raises
TrialsImage(S, L, T, J, n) ==
    IF n = 0 THEN S
    ELSE TrialsImage({trial_state(w[1], L, T, J, w[2], w[3], w[4]) :
                        w \in {v \in S \X (0 .. L - 1) \X (0 .. L - 1) \X (0 .. RGrid - 1) :
                                 ~trial_raises(v[1], L, T, J, v[2], v[3])}},
                     L, T, J, n - 1)

\* for _ in range(N): one trial; the lattices the call can return
mc_step_metropolis(state, L, T, J, N) == TrialsImage({state}, L, T, J, N)

\* IsingModel.mc_step: one sweep, N = L*L trials on the object's lattice
mc_step(obj) == mc_step_metropolis(obj.state, obj.L, obj.T, obj.J, total_spins(obj))

-----------------------------------------------------------------------------
(* The kernel specification: one lattice object and Metropolis trials on it *)

SimIdle == [pc |-> "idle"]
PoolIdle == [pc |-> "idle"]

Init ==
    /\ ising = NoObj
    /\ trial = NoTrial
    /\ sim = SimIdle
    /\ pool = PoolIdle

\* ising = IsingModel(L, T, J)
New ==
    /\ ising = NoObj
    /\ \E L \in 1 .. MaxL, T \in Temps, J \in Js :
         \E bits \in [Cells(L) -> {0, 1}] :
            /\ ising' = IsingModel(L, T, J, bits)
            /\ trial' = [op |-> "new", bits |-> bits]
    /\ UNCHANGED <<sim, pool>>

\* one pass of the loop of mc_step_metropolis: a, b = randint(0, L), r = rand()
Trial ==
    /\ ising # NoObj
    /\ \E a \in 0 .. ising.L - 1, b \in 0 .. ising.L - 1, q \in 0 .. RGrid - 1 :
         /\ trial' = trial_record(ising.state, ising.L, ising.T, ising.J, a, b, q)
         /\ ising' = [ising EXCEPT
                        !.state = trial_state(ising.state, ising.L, ising.T, ising.J, a, b, q)]
    /\ UNCHANGED <<sim, pool>>

Next == New \/ Trial

Spec == Init /\ [][Next]_vars

-----------------------------------------------------------------------------
(* The observables specification: energy and magnetization of any lattice *)

\* every L x L lattice of +/-1 spins, L in 1..MaxObsL
InitObs ==
    /\ \E L \in 1 .. MaxObsL, J \in Js :
         \E st \in [Cells(L) -> Spins] :
            ising = [L |-> L, T |-> <<8, 1>>, J |-> J, state |-> st]
    /\ trial = NoTrial
    /\ sim = SimIdle
    /\ pool = PoolIdle

\* msmt_energy, msmt_magnetization = ising.energy, ising.magnetization
Measure ==
    /\ trial = NoTrial
    /\ trial' = [op |-> "measure", energy |-> ising_energy(ising),
                 magnetization |-> magnetization(ising)]
    /\ UNCHANGED <<ising, sim, pool>>

NextObs == Measure

SpecObs == InitObs /\ [][NextObs]_vars

-----------------------------------------------------------------------------
(* The driver specification: one call of simulate() *)

\* the frame of simulate(thermalize_sweeps, msmt_sweeps, msmt_rate, L, T) at its call;
\* samples (the loop indices whose sample was folded into the sums) and sweeps
\* (the calls of mc_step made) are history, not locals of the code
SimCall(ts, ms, mr, L, T) ==
    [pc |-> "call", thermalize_sweeps |-> ts, msmt_sweeps |-> ms, msmt_rate |-> mr,
     L |-> L, T |-> T, i |-> 0, n_msmts |-> 0,
     energy |-> RInt(0), energy_sq |-> RInt(0),
     magnetization |-> RInt(0), magnetization_sq |-> RInt(0),
     samples |-> <<>>, sweeps |-> 0, ret |-> <<>>]

InitSim ==
    /\ \E ts \in 0 .. MaxThermalize, ms \in 0 .. MaxMsmt, mr \in 1 .. MaxRate :
         \E L \in 1 .. MaxSimL, T \in Temps :
            sim = SimCall(ts, ms, mr, L, T)
    /\ ising = NoObj
    /\ trial = NoTrial
    /\ pool = PoolIdle

\* the sums zeroed, n_msmts = msmt_sweeps // msmt_rate, ising = IsingModel(L, T)
Enter ==
    /\ sim.pc = "call"
    /\ \E bits \in [Cells(sim.L) -> {0, 1}] :
         ising' = IsingModel(sim.L, sim.T, 1, bits)
    /\ sim' = [sim EXCEPT !.pc = "thermalize",
                          !.n_msmts = sim.msmt_sweeps \div sim.msmt_rate]
    /\ UNCHANGED <<trial, pool>>

\* for i in range(thermalize_sweeps): ising.mc_step()
ThermalizeSweep ==
    /\ sim.pc = "thermalize"
    /\ sim.i < sim.thermalize_sweeps
    /\ \E st \in mc_step(ising) : ising' = [ising EXCEPT !.state = st]
    /\ sim' = [sim EXCEPT !.i = sim.i + 1, !.sweeps = sim.sweeps + 1]
    /\ UNCHANGED <<trial, pool>>

\* the thermalization loop is exhausted
ThermalizeDone ==
    /\ sim.pc = "thermalize"
    /\ sim.i >= sim.thermalize_sweeps
    /\ sim' = [sim EXCEPT !.pc = "measure", !.i = 0]
    /\ UNCHANGED <<ising, trial, pool>>

\* the four sums after the sample (e, m) = (ising.energy, ising.magnetization)
\* is folded in
folded(f, e, m) ==
        [f EXCEPT !.energy = RAdd(f.energy, e),
                  !.energy_sq = RAdd(f.energy_sq, RMul(e, e)),
                  !.magnetization = RAdd(f.magnetization, m),
                  !.magnetization_sq = RAdd(f.magnetization_sq, RMul(m, m)),
                  !.samples = Append(f.samples, f.i)]

\* a measurement pass that samples after every msmt_rate-th sweep instead, i.e.
\* when (i + 1) % msmt_rate == 0
MeasureSweepAtRateEnd ==
    /\ sim.pc = "measure"
    /\ sim.i < sim.msmt_sweeps
    /\ \E st \in mc_step(ising) :
         LET obj == [ising EXCEPT !.state = st]
             f == IF (sim.i + 1) % sim.msmt_rate = 0
                  THEN folded(sim, ising_energy(obj), magnetization(obj))
                  ELSE sim
         IN  /\ ising' = obj
             /\ sim' = [f EXCEPT !.i = sim.i + 1, !.sweeps = sim.sweeps + 1]
    /\ UNCHANGED <<trial, pool>>

\* one pass of the measurement loop: ising.mc_step(), then the sample when
\* i % msmt_rate == 0
MeasureSweep ==
    /\ sim.pc = "measure"
    /\ sim.i < sim.msmt_sweeps
    /\ \E st \in mc_step(ising) :
         LET obj == [ising EXCEPT !.state = st]
             f == IF sim.i % sim.msmt_rate = 0
                  THEN folded(sim, ising_energy(obj), magnetization(obj))
                  ELSE sim
         IN  /\ ising' = obj
             /\ sim' = [f EXCEPT !.i = sim.i + 1, !.sweeps = sim.sweeps + 1]
    /\ UNCHANGED <<trial, pool>>

\* energy/n_msmts, energy_sq/n_msmts, magnetization/n_msmts, magnetization_sq/n_msmts
simulate_return(f) ==
    << RDiv(f.energy, RInt(f.n_msmts)), RDiv(f.energy_sq, RInt(f.n_msmts)),
       RDiv(f.magnetization, RInt(f.n_msmts)), RDiv(f.magnetization_sq, RInt(f.n_msmts)) >>

\* the return statement: the division raises ZeroDivisionError when n_msmts = 0
Return ==
    /\ sim.pc = "measure"
    /\ sim.i >= sim.msmt_sweeps
    /\ sim' = IF sim.n_msmts = 0
              THEN [sim EXCEPT !.pc = "raised"]
              ELSE [sim EXCEPT !.pc = "returned", !.ret = simulate_return(sim)]
    /\ UNCHANGED <<ising, trial, pool>>

NextSim == Enter \/ ThermalizeSweep \/ ThermalizeDone \/ MeasureSweep \/ Return

SpecSim == InitSim /\ [][NextSim]_vars

-----------------------------------------------------------------------------
(* The orchestrator specification: main() and its pool of worker processes. *)
(* A worker's call of simulate() shares nothing with the others and is one  *)
(* step here; the lattice it samples after a sweep ranges over every +/-1   *)
(* lattice of its size, which covers every lattice the sweeps can reach.    *)

\* k = 1, the Boltzmann constant
k == 1

\* the temperatures a grid is drawn from: 0 (the degenerate one), 1/2 and 8
GridTemps == {<<0, 1>>, <<1, 2>>, <<8, 1>>}

\* the (thermalize_sweeps, msmt_sweeps, msmt_rate) a run is configured with
PoolSweeps == {<<1, 1, 1>>, <<0, 1, 1>>, <<1, 0, 1>>, <<1, 1, 2>>}

\* every sequence over S of length n
SeqsOfLen(S, n) == [1 .. n -> S]

\* a grid holds each temperature once, in any order
Grids ==
    {g \in UNION {SeqsOfLen(GridTemps, n) : n \in 0 .. MaxTemps} :
        \A i \in DOMAIN g, j \in DOMAIN g : i # j => g[i] # g[j]}

\* a list of sizes holds each size once, in any order, and is not empty
SizeLists ==
    {z \in UNION {SeqsOfLen(1 .. MaxPoolL, n) : n \in 1 .. MaxPoolL} :
        \A i \in DOMAIN z, j \in DOMAIN z : i # j => z[i] # z[j]}

\* (energy, magnetization) of every +/-1 lattice of side L, at J = 1
Samples == [L \in 1 .. MaxPoolL |->
              {<<energy(st, L, 1), magnetization([L |-> L, state |-> st])>> :
                  st \in [Cells(L) -> Spins]}]

\* whether some sweep at T = 0 can end without raising: N trials, each with cost < 0
ZeroTSweepPasses == [L \in 1 .. MaxPoolL |->
                       TrialsImage([Cells(L) -> Spins], L, <<0, 1>>, 1, L * L) # {}]

RECURSIVE measured(_, _)
\* the frames at the end of the measurement loop, from the frames F inside it
measured(F, L) ==
    LET todo == {f \in F : f.i < f.msmt_sweeps}
    IN  IF todo = {} THEN F
        ELSE measured((F \ todo) \cup
                      {[(IF f.i % f.msmt_rate = 0 THEN folded(f, sm[1], sm[2]) ELSE f)
                          EXCEPT !.i = f.i + 1, !.sweeps = f.sweeps + 1] :
                            f \in todo, sm \in Samples[L]}, L)

\* the frame simulate() ends in after its return statement
returned(f) ==
    IF f.n_msmts = 0 THEN [f EXCEPT !.pc = "raised"]
    ELSE [f EXCEPT !.pc = "returned", !.ret = simulate_return(f)]

\* the frames a call simulate(ts, ms, mr, L, T) can end in
simulate(ts, ms, mr, L, T) ==
    LET f0 == [SimCall(ts, ms, mr, L, T) EXCEPT
                  !.pc = "measure", !.n_msmts = ms \div mr, !.sweeps = ts]
        ends == {returned(f) : f \in measured({f0}, L)}
        raised == [SimCall(ts, ms, mr, L, T) EXCEPT !.pc = "raised", !.n_msmts = ms \div mr]
    IN  IF T[1] = 0 /\ ts + ms > 0
        THEN {raised} \cup (IF ZeroTSweepPasses[L] THEN ends ELSE {})
        ELSE ends

\* every call a worker can be handed, with the frames it can end in
Outcomes == [c \in PoolSweeps \X (1 .. MaxPoolL) \X GridTemps |->
               simulate(c[1][1], c[1][2], c[1][3], c[2], c[3])]

Queued == [st |-> "queued"]

InitMain ==
    /\ \E sw \in PoolSweeps, g \in Grids, z \in SizeLists :
         pool = [pc |-> "for", sweeps |-> sw, sizes |-> z, T |-> g, si |-> 1,
                 task |-> <<>>, done |-> <<>>, results |-> <<>>, saved |-> <<>>]
    /\ ising = NoObj
    /\ trial = NoTrial
    /\ sim = SimIdle

\* for L in sizes: N = L**2; the pool is opened and p.map(f, T) hands out one
\* call of simulate per temperature
StartSize ==
    /\ pool.pc = "for"
    /\ pool.si <= Len(pool.sizes)
    /\ pool' = [pool EXCEPT !.pc = "map",
                            !.task = [i \in 1 .. Len(pool.T) |-> Queued],
                            !.done = <<>>, !.results = <<>>]
    /\ UNCHANGED <<ising, trial, sim>>

\* a task is run once: the pool takes it off its queue
runnable(t) == t.st = "queued"

\* a worker process runs simulate(thermalize_sweeps, msmt_sweeps, msmt_rate, L, T[i])
\* to its end: it returns the four means, or raises
WorkerRun ==
    /\ pool.pc = "map"
    /\ \E i \in 1 .. Len(pool.T) :
         /\ runnable(pool.task[i])
         /\ \E f \in Outcomes[<<pool.sweeps, pool.sizes[pool.si], pool.T[i]>>] :
              pool' = [pool EXCEPT
                         !.task[i] = [st |-> IF f.pc = "returned" THEN "done" ELSE "failed",
                                      T |-> f.T, ret |-> f.ret, sweeps |-> f.sweeps,
                                      lattice |-> TRUE],
                         !.done = Append(pool.done, i)]
    /\ UNCHANGED <<ising, trial, sim>>

map_in_completion_order(task, done) == [i \in 1 .. Len(task) |-> task[done[i]].ret]

\* the list p.map returns: the tasks' results in the order of the temperatures
map_value(task, done) == [i \in 1 .. Len(task) |-> task[i].ret]

\* the structured array of lines 135-139, one record per temperature
table(vals, T, N) ==
    [i \in 1 .. Len(T) |->
        LET energy_i == vals[i][1]
            energy_sq_i == vals[i][2]
            magnetization_i == vals[i][3]
            magnetization_sq_i == vals[i][4]
        IN  [E |-> energy_i,
             M |-> magnetization_i,
             C |-> RMul(RDiv(RInt(1), RMul(RInt(N * k), RMul(T[i], T[i]))),
                        RSub(energy_sq_i, RMul(energy_i, energy_i))),
             Chi |-> RMul(RDiv(RInt(N), RMul(RInt(k), T[i])),
                          RSub(magnetization_sq_i, RMul(magnetization_i, magnetization_i))),
             T |-> T[i]]]

AllFinished == \A i \in 1 .. Len(pool.task) : pool.task[i].st # "queued"
SomeFailed == \E i \in 1 .. Len(pool.task) : pool.task[i].st = "failed"

\* p.map returns once every task has ended, none of them failed; the four
\* arrays are unpacked and the table is filled (lines 132-139)
MapReturn ==
    /\ pool.pc = "map"
    /\ AllFinished /\ ~SomeFailed
    /\ Len(pool.T) > 0
    /\ LET L == pool.sizes[pool.si]
       IN  pool' = [pool EXCEPT
                      !.pc = "save",
                      !.results = table(map_value(pool.task, pool.done), pool.T, L * L)]
    /\ UNCHANGED <<ising, trial, sim>>

MapRaiseSwallowed ==
    /\ pool.pc = "map"
    /\ AllFinished
    /\ SomeFailed \/ Len(pool.T) = 0
    /\ pool' = [pool EXCEPT !.pc = "save"]
    /\ UNCHANGED <<ising, trial, sim>>

\* p.map re-raises a task's exception once every task has ended, and unpacking
\* the result of an empty grid raises ValueError; main() catches neither
MapRaise ==
    /\ pool.pc = "map"
    /\ AllFinished
    /\ SomeFailed \/ Len(pool.T) = 0
    /\ pool' = [pool EXCEPT !.pc = "crashed"]
    /\ UNCHANGED <<ising, trial, sim>>

\* save(results, L), and on to the next size
Save ==
    /\ pool.pc = "save"
    /\ pool' = [pool EXCEPT
                  !.pc = "for", !.si = pool.si + 1,
                  !.saved = Append(pool.saved,
                                   [L |-> pool.sizes[pool.si], results |-> pool.results])]
    /\ UNCHANGED <<ising, trial, sim>>

\* the loop over the sizes is exhausted
Exit ==
    /\ pool.pc = "for"
    /\ pool.si > Len(pool.sizes)
    /\ pool' = [pool EXCEPT !.pc = "exit"]
    /\ UNCHANGED <<ising, trial, sim>>

NextMain == StartSize \/ WorkerRun \/ MapReturn \/ MapRaise \/ Save \/ Exit

SpecMain == InitMain /\ [][NextMain]_vars

-----------------------------------------------------------------------------
(* Claims on the lattice and the kernel *)

\* C1: from construction on and after every single Metropolis trial, the
\* lattice has exactly L x L cells, L >= 1, and every cell holds +1 or -1.
C1_LatticeShape ==
    ising # NoObj =>
        /\ ising.L >= 1
        /\ DOMAIN ising.state = Cells(ising.L)
        /\ Cardinality(DOMAIN ising.state) = ising.L * ising.L
        /\ \A c \in DOMAIN ising.state : ising.state[c] = 1 \/ ising.state[c] = -1

\* a trial has flipped a spin of a 2 x 2 lattice
C1_Witness ==
    /\ trial.op = "trial"
    /\ ising.L = 2
    /\ ising.state # trial.before

\* C4 (as claimed): an accepted flip changes energy(state, L, J) by exactly
\* cost = 2*J*s*nn_sum, and a rejected one leaves it unchanged.
C4_FlipChangesEnergyByCost ==
    trial.op = "trial" =>
        LET before == energy(trial.before, ising.L, ising.J)
            after == energy(ising.state, ising.L, ising.J)
        IN  IF ising.state # trial.before
            THEN after = RAdd(before, RInt(2 * ising.J * trial.s * trial.nn_sum))
            ELSE after = before

\* the unordered nearest-neighbour pairs of the periodic L x L lattice
NNBonds(L) ==
    {{c, Neighbours(L, c[1], c[2])[d]} : c \in Cells(L), d \in 1 .. 4}

\* s_i * s_j of one bond (a site that is its own neighbour when L = 1)
BondProduct(state, bond) ==
    LET c == CHOOSE x \in bond : TRUE
        n == IF bond = {c} THEN c ELSE CHOOSE y \in bond : y # c
    IN  state[c] * state[n]

\* the sum of s_i * s_j over the nearest-neighbour bonds, each bond once
BondSum(state, L) ==
    SumOver([bd \in NNBonds(L) |-> BondProduct(state, bd)], NNBonds(L))

\* C5 (as claimed): the site-by-site sum counts every bond 4 times, so that
\* energy(state, L, J) is H = -J * (sum over the bonds, each once).
C5_EnergyIsBondHamiltonian ==
    trial.op = "measure" =>
        /\ energy_loop(ising.state, ising.L) = 4 * BondSum(ising.state, ising.L)
        /\ trial.energy = RInt(-ising.J * BondSum(ising.state, ising.L))

\* C6: in every trial the cost is 2*J*s*nn_sum over the four periodic
\* neighbours; the spin is flipped when cost < 0, and when cost >= 0 exactly
\* when the draw r satisfies r <= exp(-cost/T); otherwise it stays s.  A
\* trial with cost = 0 always flips.
C6_AcceptanceRule ==
    trial.op = "trial" =>
        LET L == ising.L
            a == trial.a
            b == trial.b
            old == trial.before
            s == old[<<a, b>>]
            nn == old[<<(a + 1) % L, b>>] + old[<<a, (b + 1) % L>>]
                  + old[<<(a + L - 1) % L, b>>] + old[<<a, (b + L - 1) % L>>]
            cost == 2 * ising.J * s * nn
            now == ising.state[<<a, b>>]
        IN  /\ trial.s = s /\ trial.nn_sum = nn /\ trial.cost = cost
            /\ now = s \/ now = -s
            /\ cost < 0 => now = -s
            /\ cost = 0 => now = -s
            /\ cost >= 0 =>
                 /\ trial.r \in 0 .. RGrid - 1
                 /\ (now = -s) <=> rand_le_exp(trial.r, cost, ising.T)

\* a trial with cost > 0 whose draw r > 0 passed, and so flipped the spin
C6_Witness ==
    /\ trial.op = "trial"
    /\ trial.cost > 0
    /\ trial.r > 0
    /\ ising.state[<<trial.a, trial.b>>] = -trial.s

\* C9 (as claimed): the fresh lattice is all +1 whenever T/J < 1, and one
\* random +/-1 value per cell otherwise.
C9_AllUpBelowUnitTemperature ==
    trial.op = "new" =>
        IF RLt(ising.T, RInt(ising.J))
        THEN \A c \in Cells(ising.L) : ising.state[c] = 1
        ELSE \A c \in Cells(ising.L) : ising.state[c] = 2 * trial.bits[c] - 1

\* C9 (amended): the fresh lattice holds one random +/-1 value per cell,
\* 2*bit - 1 for that cell's own random bit, whatever T/J is.
C9_RandomAtEveryTemperature ==
    trial.op = "new" =>
        /\ DOMAIN trial.bits = Cells(ising.L)
        /\ \A c \in Cells(ising.L) :
             /\ trial.bits[c] \in {0, 1}
             /\ ising.state[c] = 2 * trial.bits[c] - 1

\* a lattice built at T/J < 1 that holds a down spin
C9_Witness ==
    /\ trial.op = "new"
    /\ RLt(ising.T, RInt(ising.J))
    /\ \E c \in Cells(ising.L) : ising.state[c] = -1

-----------------------------------------------------------------------------
(* Claims on the frame of a trial *)

\* the cell of a trial and its four neighbours on the torus, from the indices
\* the trial recorded
TrialCell == <<trial.a, trial.b>>

TorusNeighbours ==
    LET L == ising.L
    IN  { <<(trial.a + 1) % L, trial.b>>, <<(trial.a + L - 1) % L, trial.b>>,
          <<trial.a, (trial.b + 1) % L>>, <<trial.a, (trial.b + L - 1) % L>> }

\* the draw of the recorded trial (none is made when cost < 0)
TrialDraw == IF trial.r < 0 THEN 0 ELSE trial.r

\* after a trial: the site is on the lattice, the neighbours are on the
\* lattice, what was read is the cell and the four torus neighbours, and the
\* outcome does not depend on any other cell; every other cell is as before,
\* and a trial the rule rejects leaves the lattice as it was
C12_TrialFootprint ==
    trial.op = "trial" =>
        LET L == ising.L
            before == trial.before
            up == <<(trial.a + 1) % L, trial.b>>
            down == <<(trial.a + L - 1) % L, trial.b>>
            right == <<trial.a, (trial.b + 1) % L>>
            left == <<trial.a, (trial.b + L - 1) % L>>
        IN  /\ trial.a \in 0 .. L - 1
            /\ trial.b \in 0 .. L - 1
            /\ TorusNeighbours \subseteq Cells(L)
            /\ \A n \in 1 .. 4 : Neighbours(L, trial.a, trial.b)[n] \in TorusNeighbours
            /\ TorusNeighbours
                   = {Neighbours(L, trial.a, trial.b)[n] : n \in 1 .. 4}
            /\ trial.s = before[TrialCell]
            /\ trial.nn_sum = before[up] + before[down] + before[right] + before[left]
            /\ \A c \in Cells(L) \ (TorusNeighbours \cup {TrialCell}) :
                  LET other == [before EXCEPT ![c] = -before[c]]
                  IN  trial_state(other, L, ising.T, ising.J, trial.a, trial.b,
                                  TrialDraw)[TrialCell]
                        = ising.state[TrialCell]
            /\ DOMAIN ising.state = Cells(L)
            /\ \A c \in Cells(L) \ {TrialCell} : ising.state[c] = before[c]
            /\ ising.state[TrialCell] \in {before[TrialCell], -before[TrialCell]}
            /\ (trial.cost >= 0 /\ ~rand_le_exp(TrialDraw, trial.cost, ising.T)) =>
                  ising.state = before

\* a trial does not change L, T or J of the model it acts on
C12_ParametersKept ==
    (ising # NoObj /\ trial'.op = "trial") =>
        /\ ising'.L = ising.L
        /\ ising'.T = ising.T
        /\ ising'.J = ising.J
        /\ trial'.before = ising.state

\* C12: each trial of mc_step_metropolis picks a site (a, b) with
\* 0 <= a, b < L, reads only that cell and its four periodic neighbours, all
\* with indices in [0, L), leaves every cell other than (a, b) unchanged,
\* leaves the whole lattice unchanged when the trial is rejected, and never
\* modifies L, T or J.
C12_TrialFrame == []C12_TrialFootprint /\ [][C12_ParametersKept]_vars

C12_Witness ==
    /\ trial.op = "trial"
    /\ ising.L = 2
    /\ trial.a = 1
    /\ trial.b = 0
    /\ ising.state # trial.before
    /\ Cells(ising.L) \ (TorusNeighbours \cup {TrialCell}) # {}

-----------------------------------------------------------------------------
(* Claims on the driver *)

\* C3 (as claimed): each value simulate returns is the accumulated sum divided
\* by the number of samples folded into it, and that number is
\* msmt_sweeps // msmt_rate.
C3_MeanOverSamplesTaken ==
    sim.pc = "returned" =>
        LET n == Len(sim.samples)
        IN  /\ n = sim.msmt_sweeps \div sim.msmt_rate
            /\ n > 0
            /\ sim.ret = << RDiv(sim.energy, RInt(n)), RDiv(sim.energy_sq, RInt(n)),
                            RDiv(sim.magnetization, RInt(n)),
                            RDiv(sim.magnetization_sq, RInt(n)) >>

\* the four running sums of a simulate frame
sums(f) == <<f.energy, f.energy_sq, f.magnetization, f.magnetization_sq>>

\* the loop position of a run: nothing is folded while the thermalization loop
\* runs; in the measurement loop the passes 0 .. i-1 are done, the sampled
\* ones are exactly those with index % msmt_rate = 0, in order; every pass of
\* either loop is one sweep; a finished run has made thermalize_sweeps +
\* msmt_sweeps sweeps, and an unfinished run can always take its next step
C11_Position ==
    /\ sim.pc \in {"call", "thermalize"} =>
          /\ sim.samples = <<>>
          /\ sums(sim) = <<RInt(0), RInt(0), RInt(0), RInt(0)>>
          /\ sim.sweeps = sim.i
          /\ sim.i <= sim.thermalize_sweeps
    /\ sim.pc \in {"measure", "returned", "raised"} =>
          /\ sim.sweeps = sim.thermalize_sweeps + sim.i
          /\ sim.i <= sim.msmt_sweeps
          /\ \A j \in 0 .. sim.i - 1 :
                (j % sim.msmt_rate = 0) <=> (\E x \in DOMAIN sim.samples : sim.samples[x] = j)
          /\ \A x \in DOMAIN sim.samples : sim.samples[x] \in 0 .. sim.i - 1
          /\ \A x, y \in DOMAIN sim.samples : x < y => sim.samples[x] < sim.samples[y]
    /\ sim.pc \in {"returned", "raised"} =>
          /\ sim.i = sim.msmt_sweeps
          /\ sim.sweeps = sim.thermalize_sweeps + sim.msmt_sweeps
    /\ sim.pc = "call" => ENABLED Enter
    /\ sim.pc = "thermalize" => sim.i < sim.thermalize_sweeps \/ ENABLED ThermalizeDone
    /\ sim.pc = "measure" => sim.i < sim.msmt_sweeps \/ ENABLED Return

\* one step of a run: a thermalization pass folds nothing; measurement pass i
\* folds the energy and magnetization of the lattice that pass has just
\* produced when i % msmt_rate = 0 and folds nothing otherwise; the sweep count
\* only changes in a pass, by one
C11_Pass ==
    /\ sim.pc = "thermalize" => sums(sim') = sums(sim) /\ sim'.samples = sim.samples
    /\ (sim.pc = "measure" /\ sim'.i = sim.i + 1) =>
          LET e == ising_energy(ising')
              m == magnetization(ising')
          IN  IF sim.i % sim.msmt_rate = 0
              THEN /\ sums(sim') = <<RAdd(sim.energy, e), RAdd(sim.energy_sq, RMul(e, e)),
                                     RAdd(sim.magnetization, m),
                                     RAdd(sim.magnetization_sq, RMul(m, m))>>
                   /\ sim'.samples = Append(sim.samples, sim.i)
              ELSE sums(sim') = sums(sim) /\ sim'.samples = sim.samples
    /\ sim'.sweeps # sim.sweeps =>
          /\ sim'.sweeps = sim.sweeps + 1
          /\ sim'.pc = sim.pc
          /\ sim'.i = sim.i + 1
    /\ sim.pc \in {"returned", "raised"} => sim' = sim

\* C11: in every run of simulate no sample is folded before all
\* thermalize_sweeps thermalization sweeps are done; then msmt_sweeps
\* measurement sweeps are made, the state is sampled right after measurement
\* sweep i exactly when i % msmt_rate = 0, and the run ends after
\* thermalize_sweeps + msmt_sweeps sweeps.
C11_SamplingSchedule == []C11_Position /\ [][C11_Pass]_vars

C11_Witness ==
    /\ sim.pc = "returned"
    /\ sim.thermalize_sweeps = 1
    /\ sim.msmt_sweeps = 3
    /\ sim.msmt_rate = 2
    /\ sim.samples = <<0, 2>>
    /\ sim.sweeps = 4

\* the row main() builds from the four values a finished run returned
returned_row == table(<<sim.ret>>, <<sim.T>>, sim.L * sim.L)[1]

\* C13 (as claimed): for T > 0, L >= 1 and msmt_sweeps >= msmt_rate >= 1 the
\* returned second moments are not below the squares of the returned first
\* moments, so C and Chi of the table row are non-negative.
C13_NonNegativeResponse ==
    (/\ sim.pc = "returned"
     /\ RLt(RInt(0), sim.T)
     /\ sim.L >= 1
     /\ sim.msmt_sweeps >= sim.msmt_rate
     /\ sim.msmt_rate >= 1) =>
        /\ RLe(RMul(sim.ret[1], sim.ret[1]), sim.ret[2])
        /\ RLe(RMul(sim.ret[3], sim.ret[3]), sim.ret[4])
        /\ RLe(RInt(0), returned_row.C)
        /\ RLe(RInt(0), returned_row.Chi)

\* the same when msmt_rate divides msmt_sweeps, where the divisor is the
\* number of samples folded
C13_NonNegativeWhenRateDivides ==
    (sim.pc = "returned" /\ sim.msmt_sweeps % sim.msmt_rate = 0) =>
        /\ RLe(RMul(sim.ret[1], sim.ret[1]), sim.ret[2])
        /\ RLe(RMul(sim.ret[3], sim.ret[3]), sim.ret[4])
        /\ RLe(RInt(0), returned_row.C)
        /\ RLe(RInt(0), returned_row.Chi)

-----------------------------------------------------------------------------
(* Claims on the orchestrator *)

\* C2: whatever order the tasks complete in, the assembled table has one
\* record per temperature, and record i holds T[i] with the E, M, C and Chi
\* computed from what the simulation run at T[i] returned.
C2_TableInInputOrder ==
    pool.pc = "save" =>
        LET N == pool.sizes[pool.si] * pool.sizes[pool.si]
        IN  /\ Len(pool.results) = Len(pool.T)
            /\ \A i \in 1 .. Len(pool.T) :
                 LET t == pool.task[i]
                     rec == pool.results[i]
                     Ti == pool.T[i]
                 IN  /\ t.st = "done" /\ t.T = Ti
                     /\ rec.T = Ti
                     /\ rec.E = t.ret[1]
                     /\ rec.M = t.ret[3]
                     /\ rec.C = RDiv(RSub(t.ret[2], RMul(t.ret[1], t.ret[1])),
                                     RMul(RInt(N), RMul(Ti, Ti)))
                     /\ rec.Chi = RDiv(RMul(RInt(N), RSub(t.ret[4], RMul(t.ret[3], t.ret[3]))),
                                       Ti)

\* a table of two temperatures whose second task completed first and
\* returned other values than the first
C2_Witness ==
    /\ pool.pc = "save"
    /\ Len(pool.T) = 2
    /\ pool.done = <<2, 1>>
    /\ pool.task[1].ret # pool.task[2].ret
    /\ pool.results[1].E # pool.results[2].E

\* a configuration error: an empty temperature grid, thermalize_sweeps <= 0
\* or msmt_sweeps <= 0, or a size <= 0
ConfigError ==
    \/ Len(pool.T) = 0
    \/ pool.sweeps[1] <= 0
    \/ pool.sweeps[2] <= 0
    \/ \E i \in DOMAIN pool.sizes : pool.sizes[i] <= 0

\* C7 (as claimed): a configuration error is rejected before any simulation
\* work: no lattice is constructed, no sweep is executed, no table is saved.
C7_ConfigErrorRejected ==
    ConfigError =>
        /\ \A i \in DOMAIN pool.task : pool.task[i].st = "queued"
        /\ pool.pc # "save"
        /\ pool.saved = <<>>

\* C8: once the simulation of one temperature has failed for a size, no table
\* of that size is assembled or saved, no task is run a second time, and
\* main() can only end in the uncaught exception.
C8_FailureIsFatal ==
    SomeFailed =>
        /\ pool.pc \in {"map", "crashed"}
        /\ pool.results = <<>>
        /\ Len(pool.saved) = pool.si - 1
        /\ \A j \in DOMAIN pool.saved : pool.saved[j].L # pool.sizes[pool.si]
        /\ \A i \in DOMAIN pool.done, j \in DOMAIN pool.done :
             i # j => pool.done[i] # pool.done[j]

\* main() ended in the exception of one task while another task of the size
\* had returned its values
C8_Witness ==
    /\ pool.pc = "crashed"
    /\ \E i \in DOMAIN pool.task : pool.task[i].st = "failed"
    /\ \E i \in DOMAIN pool.task : pool.task[i].st = "done"

====
